---------------------------- MODULE Spec2Model ----------------------------
(***************************************************************************)
(* Text-recovery pipeline of trialsage_agent.py: decode_cid_codes,         *)
(* fix_reversed_text and clean_pdf_artifacts, and the two places of the    *)
(* Streamlit script that run them (the pdfplumber branch of                *)
(* extract_text_from_file and the "Fix Text Issues" button).               *)
(*                                                                         *)
(* A Python str is a sequence of characters; a character is a one-letter   *)
(* TLA+ string.  The six non-ASCII characters of the glyph table are       *)
(* written by their code point ("U+00AE" is the one character U+00AE).     *)
(***************************************************************************)
EXTENDS Integers, Sequences, FiniteSets, TLC

VARIABLES
    protocol_text,  \* st.session_state.protocol_text
    arg,            \* the text the running function or handler was given
    text,           \* the value flowing through the stages (text, processed_text,
                    \* decoded_text / fixed_text / cleaned_text)
    pc,             \* position of the running function or handler
    calls           \* the stage functions the current run has called, in order

vars == <<protocol_text, arg, text, pc, calls>>

----------------------------------------------------------------------------
(* Character classes of Python's re module (str patterns).                 *)

UpperLetters == <<"A", "B", "C", "D", "E", "F", "G", "H", "I", "J", "K", "L", "M",
                  "N", "O", "P", "Q", "R", "S", "T", "U", "V", "W", "X", "Y", "Z">>

LowerLetters == <<"a", "b", "c", "d", "e", "f", "g", "h", "i", "j", "k", "l", "m",
                  "n", "o", "p", "q", "r", "s", "t", "u", "v", "w", "x", "y", "z">>

DigitChars == {"0", "1", "2", "3", "4", "5", "6", "7", "8", "9"}

\* \w : letters, digits and the underscore (U+00EF and U+03BC are letters)
WordChars ==
    {UpperLetters[k] : k \in 1..26} \cup {LowerLetters[k] : k \in 1..26}
        \cup DigitChars \cup {"_", "U+00EF", "U+03BC"}

\* \s
SpaceChars == {" ", "\t", "\n", "\r", "\f"}

IsWord(c) == c \in WordChars
IsSpace(c) == c \in SpaceChars
IsDigit(c) == c \in DigitChars

\* simple case folding, as re.IGNORECASE compares characters
FoldTable == [c \in {UpperLetters[k] : k \in 1..26} |->
                 LowerLetters[CHOOSE k \in 1..26 : UpperLetters[k] = c]]

Fold(c) == IF c \in DOMAIN FoldTable THEN FoldTable[c] ELSE c

FoldStr(s) == [k \in 1..Len(s) |-> Fold(s[k])]

\* \b before the character at index i (1-based; i = Len(t) + 1 is the end)
WordAt(t, i) == i >= 1 /\ i <= Len(t) /\ IsWord(t[i])
WordBoundary(t, i) == WordAt(t, i - 1) # WordAt(t, i)

\* t[i .. i + Len(w) - 1] = w
HasAt(t, i, w) ==
    /\ i + Len(w) - 1 <= Len(t)
    /\ Len(w) > 0 => t[i] = w[1]
    /\ SubSeq(t, i, i + Len(w) - 1) = w

Max(S) == CHOOSE x \in S : \A y \in S : y <= x
Min(S) == CHOOSE x \in S : \A y \in S : x <= y

\* the end of the longest run of characters of class C starting at index i
\* (i - 1 when there is none)
RunEnd(t, i, C) ==
    LET stop == {k \in i..Len(t) : t[k] \notin C}
    IN  IF stop # {} THEN Min(stop) - 1
        ELSE IF i > Len(t) THEN i - 1 ELSE Len(t)

----------------------------------------------------------------------------
(* decode_cid_codes                                                        *)

Tok(digits) == <<"(", "c", "i", "d", ":">> \o digits \o <<")">>

\* the entries of the dict display, in the order written
cid_literal ==
  <<
     <<Tok(<<"3">>), <<" ">>>>, <<Tok(<<"2", "0">>), <<"1">>>>, <<Tok(<<"2", "1">>), <<"2">>>>,
     <<Tok(<<"2", "2">>), <<"3">>>>, <<Tok(<<"2", "3">>), <<"4">>>>, <<Tok(<<"2", "4">>), <<"5">>>>,
     <<Tok(<<"2", "5">>), <<"6">>>>, <<Tok(<<"2", "6">>), <<"7">>>>, <<Tok(<<"2", "7">>), <<"8">>>>,
     <<Tok(<<"2", "8">>), <<"9">>>>, <<Tok(<<"1", "9">>), <<"0">>>>, <<Tok(<<"3", "6">>), <<"A">>>>,
     <<Tok(<<"3", "7">>), <<"B">>>>, <<Tok(<<"3", "8">>), <<"C">>>>, <<Tok(<<"3", "9">>), <<"D">>>>,
     <<Tok(<<"4", "0">>), <<"E">>>>, <<Tok(<<"4", "1">>), <<"F">>>>, <<Tok(<<"4", "2">>), <<"G">>>>,
     <<Tok(<<"4", "3">>), <<"H">>>>, <<Tok(<<"4", "4">>), <<"I">>>>, <<Tok(<<"4", "5">>), <<"J">>>>,
     <<Tok(<<"4", "6">>), <<"K">>>>, <<Tok(<<"4", "7">>), <<"L">>>>, <<Tok(<<"4", "8">>), <<"M">>>>,
     <<Tok(<<"4", "9">>), <<"N">>>>, <<Tok(<<"5", "0">>), <<"O">>>>, <<Tok(<<"5", "1">>), <<"P">>>>,
     <<Tok(<<"5", "2">>), <<"Q">>>>, <<Tok(<<"5", "3">>), <<"R">>>>, <<Tok(<<"5", "4">>), <<"S">>>>,
     <<Tok(<<"5", "5">>), <<"T">>>>, <<Tok(<<"5", "6">>), <<"U">>>>, <<Tok(<<"5", "7">>), <<"V">>>>,
     <<Tok(<<"5", "8">>), <<"W">>>>, <<Tok(<<"5", "9">>), <<"X">>>>, <<Tok(<<"6", "0">>), <<"Y">>>>,
     <<Tok(<<"6", "1">>), <<"Z">>>>, <<Tok(<<"6", "8">>), <<"a">>>>, <<Tok(<<"6", "9">>), <<"b">>>>,
     <<Tok(<<"7", "0">>), <<"c">>>>, <<Tok(<<"7", "1">>), <<"d">>>>, <<Tok(<<"7", "2">>), <<"e">>>>,
     <<Tok(<<"7", "3">>), <<"f">>>>, <<Tok(<<"7", "4">>), <<"g">>>>, <<Tok(<<"7", "5">>), <<"h">>>>,
     <<Tok(<<"7", "6">>), <<"i">>>>, <<Tok(<<"7", "7">>), <<"j">>>>, <<Tok(<<"7", "8">>), <<"k">>>>,
     <<Tok(<<"7", "9">>), <<"l">>>>, <<Tok(<<"8", "0">>), <<"m">>>>, <<Tok(<<"8", "1">>), <<"n">>>>,
     <<Tok(<<"8", "2">>), <<"o">>>>, <<Tok(<<"8", "3">>), <<"p">>>>, <<Tok(<<"8", "4">>), <<"q">>>>,
     <<Tok(<<"8", "5">>), <<"r">>>>, <<Tok(<<"8", "6">>), <<"s">>>>, <<Tok(<<"8", "7">>), <<"t">>>>,
     <<Tok(<<"8", "8">>), <<"u">>>>, <<Tok(<<"8", "9">>), <<"v">>>>, <<Tok(<<"9", "0">>), <<"w">>>>,
     <<Tok(<<"9", "1">>), <<"x">>>>, <<Tok(<<"9", "2">>), <<"y">>>>, <<Tok(<<"9", "3">>), <<"z">>>>,
     <<Tok(<<"1", "7", "7">>), <<"-">>>>, <<Tok(<<"1", "8">>), <<"/">>>>, <<Tok(<<"1", "7">>), <<".">>>>,
     <<Tok(<<"2", "9">>), <<":">>>>, <<Tok(<<"1", "5">>), <<",">>>>, <<Tok(<<"1", "1">>), <<"(">>>>,
     <<Tok(<<"1", "2">>), <<")">>>>, <<Tok(<<"1", "3", "8">>), <<"U+00AE">>>>, <<Tok(<<"1", "6">>), <<"-">>>>,
     <<Tok(<<"1", "4">>), <<".">>>>, <<Tok(<<"1", "3">>), <<" ">>>>, <<Tok(<<"5", "9">>), <<";">>>>,
     <<Tok(<<"3", "3">>), <<"!">>>>, <<Tok(<<"6", "3">>), <<"?">>>>, <<Tok(<<"1", "8", "2">>), <<"'">>>>,
     <<Tok(<<"1", "4", "7">>), <<"U+00B1">>>>, <<Tok(<<"3", "0">>), <<";">>>>, <<Tok(<<"1", "2", "0">>), <<"U+2022">>>>,
     <<Tok(<<"8">>), <<"%">>>>, <<Tok(<<"3", "1">>), <<"U+2264">>>>, <<Tok(<<"3", "2">>), <<" ">>>>,
     <<Tok(<<"9">>), <<"\t">>>>, <<Tok(<<"1", "7", "9">>), <<"\"">>>>, <<Tok(<<"1", "8", "0">>), <<"\"">>>>,
     <<Tok(<<"1", "1", "9">>), <<"U+00EF">>>>, <<Tok(<<"1", "8", "1">>), <<"U+03BC">>>>, <<Tok(<<"3", "4">>), <<"?">>>>,
     <<Tok(<<"6", "6">>), <<"_">>>> >>

reversed_literal ==
  <<
     <<<<"t", "u", "o", "h", "s", "a", "W">>,
        <<"W", "a", "s", "h", "o", "u", "t">>>>,
     <<<<"d", "o", "i", "r", "e", "P">>,
        <<"P", "e", "r", "i", "o", "d">>>>,
     <<<<"s", "k", "e", "e", "w">>,
        <<"w", "e", "e", "k", "s">>>>,
     <<<<"g", "n", "i", "n", "e", "e", "r", "c", "S">>,
        <<"S", "c", "r", "e", "e", "n", "i", "n", "g">>>>,
     <<<<"t", "i", "s", "i", "V">>,
        <<"V", "i", "s", "i", "t">>>>,
     <<<<"g", "n", "i", "w", "o", "l", "l", "o", "f">>,
        <<"f", "o", "l", "l", "o", "w", "i", "n", "g">>>>,
     <<<<"g", "n", "i", "n", "e", "e", "r", "c", "s">>,
        <<"s", "c", "r", "e", "e", "n", "i", "n", "g">>>>,
     <<<<"t", "n", "e", "s", "n", "o", "C">>,
        <<"C", "o", "n", "s", "e", "n", "t">>>>,
     <<<<"d", "e", "m", "r", "o", "f", "n", "I">>,
        <<"I", "n", "f", "o", "r", "m", "e", "d">>>>,
     <<<<"g", "n", "i", "t", "s", "e", "T">>,
        <<"T", "e", "s", "t", "i", "n", "g">>>>,
     <<<<"y", "c", "n", "a", "n", "g", "e", "r", "P">>,
        <<"P", "r", "e", "g", "n", "a", "n", "c", "y">>>>,
     <<<<"k", "c", "e", "h", "C">>,
        <<"C", "h", "e", "c", "k">>>>,
     <<<<"a", "i", "r", "e", "t", "i", "r", "C">>,
        <<"C", "r", "i", "t", "e", "r", "i", "a">>>>,
     <<<<"y", "t", "i", "l", "i", "b", "i", "g", "i", "l", "E">>,
        <<"E", "l", "i", "g", "i", "b", "i", "l", "i", "t", "y">>>>,
     <<<<"t", "n", "e", "i", "t", "a", "p">>,
        <<"p", "a", "t", "i", "e", "n", "t">>>>,
     <<<<"s", "y", "a", "D">>,
        <<"D", "a", "y", "s">>>>,
     <<<<"m", "o", "t", "p", "m", "y", "s">>,
        <<"s", "y", "m", "p", "t", "o", "m">>>>,
     <<<<"g", "n", "i", "t", "r", "o", "p", "e", "r">>,
        <<"r", "e", "p", "o", "r", "t", "i", "n", "g">>>>,
     <<<<"y", "l", "h", "t", "n", "o", "m">>,
        <<"m", "o", "n", "t", "h", "l", "y">>>>,
     <<<<"y", "l", "i", "a", "D">>,
        <<"D", "a", "i", "l", "y">>>>,
     <<<<"l", "a", "w", "a", "r", "d", "h", "t", "i", "w">>,
        <<"w", "i", "t", "h", "d", "r", "a", "w", "a", "l">>>>,
     <<<<"y", "l", "r", "a", "e">>,
        <<"e", "a", "r", "l", "y">>>>,
     <<<<"e", "n", "i", "r", "U">>,
        <<"U", "r", "i", "n", "e">>>>,
     <<<<"e", "c", "n", "O">>,
        <<"O", "n", "c", "e">>>>,
     <<<<"r", "e", "v", "i", "L">>,
        <<"L", "i", "v", "e", "r">>>>,
     <<<<"w", "e", "i", "v", "e", "R">>,
        <<"R", "e", "v", "i", "e", "w">>>>,
     <<<<"l", "a", "c", "i", "s", "y", "h", "P">>,
        <<"P", "h", "y", "s", "i", "c", "a", "l">>>>,
     <<<<"t", "h", "g", "i", "e", "W">>,
        <<"W", "e", "i", "g", "h", "t">>>>,
     <<<<"t", "h", "g", "i", "e", "H">>,
        <<"H", "e", "i", "g", "h", "t">>>>,
     <<<<"s", "u", "t", "a", "t", "s">>,
        <<"s", "t", "a", "t", "u", "s">>>>,
     <<<<"n", "a", "c", "s">>,
        <<"s", "c", "a", "n">>>>,
     <<<<"s", "i", "s", "o", "n", "g", "a", "i", "d">>,
        <<"d", "i", "a", "g", "n", "o", "s", "i", "s">>>>,
     <<<<"e", "u", "g", "o", "l", "a", "n", "a">>,
        <<"a", "n", "a", "l", "o", "g", "u", "e">>>>,
     <<<<"n", "i", "t", "a", "t", "s", "o", "t", "a", "m", "o", "s">>,
        <<"s", "o", "m", "a", "t", "o", "s", "t", "a", "t", "i", "n">>>>,
     <<<<"s", "m", "o", "t", "p", "m", "y", "s">>,
        <<"s", "y", "m", "p", "t", "o", "m", "s">>>>,
     <<<<"t", "n", "e", "m", "t", "a", "e", "r", "t">>,
        <<"t", "r", "e", "a", "t", "m", "e", "n", "t">>>>,
     <<<<"s", "e", "s", "y", "l", "a", "n", "a">>,
        <<"a", "n", "a", "l", "y", "s", "e", "s">>>>,
     <<<<"e", "e", "r", "f">>,
        <<"f", "r", "e", "e">>>>,
     <<<<"l", "l", "e", "C">>,
        <<"C", "e", "l", "l">>>>,
     <<<<"e", "l", "p", "m", "a", "s">>,
        <<"s", "a", "m", "p", "l", "e">>>>,
     <<<<"d", "o", "o", "l", "b">>,
        <<"b", "l", "o", "o", "d">>>>,
     <<<<"g", "n", "i", "l", "i", "f", "o", "r", "p">>,
        <<"p", "r", "o", "f", "i", "l", "i", "n", "g">>>>,
     <<<<"c", "i", "m", "o", "n", "e", "g">>,
        <<"g", "e", "n", "o", "m", "i", "c">>>>,
     <<<<"e", "l", "i", "f", "o", "r", "p">>,
        <<"p", "r", "o", "f", "i", "l", "e">>>>,
     <<<<"r", "u", "o", "h">>,
        <<"h", "o", "u", "r">>>>,
     <<<<"n", "i", "n", "a", "r", "g", "o", "m", "o", "r", "h", "C">>,
        <<"C", "h", "r", "o", "m", "o", "g", "r", "a", "n", "i", "n">>>>,
     <<<<"n", "i", "n", "i", "k", "o", "r", "u", "e", "N">>,
        <<"N", "e", "u", "r", "o", "k", "i", "n", "i", "n">>>>,
     <<<<"s", "e", "r", "i", "a", "n", "n", "o", "i", "t", "s", "e", "u", "Q">>,
        <<"Q", "u", "e", "s", "t", "i", "o", "n", "n", "a", "i", "r", "e", "s">>>>,
     <<<<"t", "c", "e", "j", "b", "u", "S">>,
        <<"S", "u", "b", "j", "e", "c", "t">>>>,
     <<<<"n", "o", "i", "t", "a", "r", "t", "s", "i", "n", "i", "m", "d", "A">>,
        <<"A", "d", "m", "i", "n", "i", "s", "t", "r", "a", "t", "i", "o", "n">>>>,
     <<<<"n", "o", "i", "t", "a", "c", "i", "d", "e", "m">>,
        <<"m", "e", "d", "i", "c", "a", "t", "i", "o", "n">>>>,
     <<<<"t", "n", "a", "t", "i", "m", "o", "c", "n", "o", "C">>,
        <<"C", "o", "n", "c", "o", "m", "i", "t", "a", "n", "t">>>>,
     <<<<"l", "a", "c", "i", "g", "r", "u", "s">>,
        <<"s", "u", "r", "g", "i", "c", "a", "l">>>>,
     <<<<"s", "e", "i", "p", "a", "r", "e", "h", "t">>,
        <<"t", "h", "e", "r", "a", "p", "i", "e", "s">>>>,
     <<<<"s", "e", "r", "u", "d", "e", "c", "o", "r", "p">>,
        <<"p", "r", "o", "c", "e", "d", "u", "r", "e", "s">>>>,
     <<<<"g", "u", "r", "d">>,
        <<"d", "r", "u", "g">>>>,
     <<<<"t", "n", "e", "v", "E">>,
        <<"E", "v", "e", "n", "t">>>>,
     <<<<"e", "s", "r", "e", "v", "d", "A">>,
        <<"A", "d", "v", "e", "r", "s", "e">>>>,
     <<<<"n", "o", "i", "t", "e", "l", "p", "m", "o", "C">>,
        <<"C", "o", "m", "p", "l", "e", "t", "i", "o", "n">>>> >>

\* A dict display keeps a key at the place of its first entry and gives it
\* the value of its last entry.
DictOf(lit) ==
    LET first == {k \in 1..Len(lit) : \A j \in 1..(k - 1) : lit[j][1] # lit[k][1]}
        last(k) == Max({j \in 1..Len(lit) : lit[j][1] = lit[k][1]})
        keep == [k \in 1..Len(lit) |-> k \in first]
    IN  [k \in 1..Cardinality(first) |->
            LET p == CHOOSE q \in first :
                         Cardinality({r \in first : r <= q}) = k
            IN  <<lit[p][1], lit[last(p)][2]>>]

cid_mappings == DictOf(cid_literal)

reversed_patterns == DictOf(reversed_literal)

\* str.find(old, from): the first index >= from where old occurs, 0 if none
Find(t, old, from) ==
    LET hits == {i \in from..(Len(t) - Len(old) + 1) : HasAt(t, i, old)}
    IN  IF hits = {} THEN 0 ELSE Min(hits)

\* str.replace(old, new): the occurrences of old, leftmost first and not
\* overlapping, replaced by new
RECURSIVE ReplaceFrom(_, _, _, _)
ReplaceFrom(t, old, new, from) ==
    LET p == Find(t, old, from)
    IN  IF p = 0 THEN SubSeq(t, from, Len(t))
        ELSE SubSeq(t, from, p - 1) \o new \o ReplaceFrom(t, old, new, p + Len(old))

\* (a replace that takes old without its last character for the whole of it)
ReplacePrefix(t, old, new) == ReplaceFrom(t, SubSeq(old, 1, Len(old) - 1), new, 1)

Replace(t, old, new) == ReplaceFrom(t, old, new, 1)

\* for cid, char in cid_mappings.items(): text = text.replace(cid, char)
\* (k is the entry the loop is at; the empty text is returned as it is)
RECURSIVE DecodeLoop(_, _)
DecodeLoop(t, k) ==
    IF k > Len(cid_mappings) \/ Len(t) = 0 THEN t
    ELSE DecodeLoop(Replace(t, cid_mappings[k][1], cid_mappings[k][2]), k + 1)

decode_cid_codes(t) == DecodeLoop(t, 1)

----------------------------------------------------------------------------
(* re.sub: the matches of a pattern are looked for from left to right; a   *)
(* match that starts at index i ends before index e > i; the scan goes on  *)
(* at e, and \b there still looks at the characters of the text scanned.   *)
(* Each ...End(t, i) below is the index after the match of one pattern at  *)
(* index i, or 0 when the pattern does not match at i.                     *)

----------------------------------------------------------------------------
(* fix_reversed_text                                                       *)

\* (the pattern without its closing \b)
ReversedEndOpen(t, i, reversed_word) ==
    LET e == i + Len(reversed_word)
    IN  IF /\ e - 1 <= Len(t)
           /\ WordBoundary(t, i)
           /\ FoldStr(SubSeq(t, i, e - 1)) = FoldStr(reversed_word)
        THEN e ELSE 0

\* r'\b' + re.escape(reversed_word) + r'\b' with flags=re.IGNORECASE
ReversedEnd(t, i, reversed_word) ==
    LET e == i + Len(reversed_word)
    IN  IF /\ e - 1 <= Len(t)
           /\ Fold(t[i]) = Fold(reversed_word[1])
           /\ WordBoundary(t, i)
           /\ WordBoundary(t, e)
           /\ FoldStr(SubSeq(t, i, e - 1)) = FoldStr(reversed_word)
        THEN e ELSE 0

\* re.sub(pattern, correct_word, text, flags=re.IGNORECASE), from index i on:
\* the text up to the next match, correct_word, and the rest from the end of
\* the match on
RECURSIVE SubReversed(_, _, _, _)
SubReversed(t, i, reversed_word, correct_word) ==
    LET hits == {j \in i..Len(t) : ReversedEnd(t, j, reversed_word) > 0}
    IN  IF hits = {} THEN SubSeq(t, i, Len(t))
        ELSE LET p == Min(hits)
             IN  SubSeq(t, i, p - 1) \o correct_word
                     \o SubReversed(t, ReversedEnd(t, p, reversed_word),
                                    reversed_word, correct_word)

\* for reversed_word, correct_word in reversed_patterns.items(): text = re.sub(...)
\* (k is the entry the loop is at; the empty text is returned as it is)
RECURSIVE ReversedLoop(_, _)
ReversedLoop(t, k) ==
    IF k > Len(reversed_patterns) \/ Len(t) = 0 THEN t
    ELSE ReversedLoop(SubReversed(t, 1, reversed_patterns[k][1], reversed_patterns[k][2]),
                      k + 1)

fix_reversed_text(t) == ReversedLoop(t, 1)

----------------------------------------------------------------------------
(* clean_pdf_artifacts                                                     *)

PPD == <<"P", "P", "D">>

\* r'\bPPD\s*\n' : \s* takes the longest run of whitespace that still ends
\* in a newline
PPDLineEnd(t, i) ==
    IF WordBoundary(t, i) /\ HasAt(t, i, PPD)
    THEN LET nl == {j \in (i + 3)..RunEnd(t, i + 3, SpaceChars) : t[j] = "\n"}
         IN  IF nl = {} THEN 0 ELSE Max(nl) + 1
    ELSE 0

\* text = re.sub(r'\bPPD\s*\n', '', text)
RECURSIVE SubPPDLine(_, _)
SubPPDLine(t, i) ==
    IF i > Len(t) THEN <<>>
    ELSE LET e == PPDLineEnd(t, i)
         IN  IF e > 0 THEN SubPPDLine(t, e)
             ELSE <<t[i]>> \o SubPPDLine(t, i + 1)

\* r'\bPPD\s+PPD\s*'
PPDPairEnd(t, i) ==
    IF WordBoundary(t, i) /\ HasAt(t, i, PPD)
    THEN LET s == RunEnd(t, i + 3, SpaceChars)
         IN  IF s >= i + 3 /\ HasAt(t, s + 1, PPD)
             THEN RunEnd(t, s + 4, SpaceChars) + 1
             ELSE 0
    ELSE 0

\* text = re.sub(r'\bPPD\s+PPD\s*', '', text)
RECURSIVE SubPPDPair(_, _)
SubPPDPair(t, i) ==
    IF i > Len(t) THEN <<>>
    ELSE LET e == PPDPairEnd(t, i)
         IN  IF e > 0 THEN SubPPDPair(t, e)
             ELSE <<t[i]>> \o SubPPDPair(t, i + 1)

\* r'(\s)PPD(\s)'
PPDSpacedEnd(t, i) ==
    IF i + 4 <= Len(t) /\ IsSpace(t[i]) /\ HasAt(t, i + 1, PPD) /\ IsSpace(t[i + 4])
    THEN i + 5 ELSE 0

\* text = re.sub(r'(\s)PPD(\s)', r'\1\2', text)
RECURSIVE SubPPDSpaced(_, _)
SubPPDSpaced(t, i) ==
    IF i > Len(t) THEN <<>>
    ELSE IF PPDSpacedEnd(t, i) > 0
         THEN <<t[i], t[i + 4]>> \o SubPPDSpaced(t, i + 5)
         ELSE <<t[i]>> \o SubPPDSpaced(t, i + 1)

\* r'\b(\d+)\s+ot\s+(\d+)\b' : the groups of a match at index i, as
\* <<first of \1, last of \1, first of \2, last of \2>>, or <<>>.  Each \d+
\* and \s+ takes its whole run: what follows it in the pattern cannot start
\* with a character of the run, and a \b cannot fall inside a run of digits.
OtGroups(t, i) ==
    IF WordBoundary(t, i) /\ i <= Len(t) /\ IsDigit(t[i])
    THEN LET d1 == RunEnd(t, i, DigitChars)
             s1 == RunEnd(t, d1 + 1, SpaceChars)
         IN  IF s1 > d1 /\ HasAt(t, s1 + 1, <<"o", "t">>)
             THEN LET s2 == RunEnd(t, s1 + 3, SpaceChars)
                      d2 == RunEnd(t, s2 + 1, DigitChars)
                  IN  IF s2 > s1 + 2 /\ d2 > s2 /\ WordBoundary(t, d2 + 1)
                      THEN <<i, d1, s2 + 1, d2>>
                      ELSE <<>>
             ELSE <<>>
    ELSE <<>>

\* text = re.sub(r'\b(\d+)\s+ot\s+(\d+)\b', r'\1 to \2', text)
RECURSIVE SubOt(_, _)
SubOt(t, i) ==
    IF i > Len(t) THEN <<>>
    ELSE LET g == OtGroups(t, i)
         IN  IF g # <<>>
             THEN SubSeq(t, g[1], g[2]) \o <<" ", "t", "o", " ">> \o SubSeq(t, g[3], g[4])
                      \o SubOt(t, g[4] + 1)
             ELSE <<t[i]>> \o SubOt(t, i + 1)

\* r'\n\s*\n\s*\n' : a newline and the run of whitespace after it, up to the
\* last newline of the run, when the run holds two newlines or more
BlankLinesEnd(t, i) ==
    IF i <= Len(t) /\ t[i] = "\n"
    THEN LET nl == {j \in (i + 1)..RunEnd(t, i + 1, SpaceChars) : t[j] = "\n"}
         IN  IF Cardinality(nl) >= 2 THEN Max(nl) + 1 ELSE 0
    ELSE 0

\* text = re.sub(r'\n\s*\n\s*\n', '\n\n', text)
RECURSIVE SubBlankLines(_, _)
SubBlankLines(t, i) ==
    IF i > Len(t) THEN <<>>
    ELSE LET e == BlankLinesEnd(t, i)
         IN  IF e > 0 THEN <<"\n", "\n">> \o SubBlankLines(t, e)
             ELSE <<t[i]>> \o SubBlankLines(t, i + 1)

\* r' {3,}'
SpacesEnd(t, i) ==
    LET e == RunEnd(t, i, {" "})
    IN  IF e >= i + 2 THEN e + 1 ELSE 0

\* text = re.sub(r' {3,}', '  ', text)
RECURSIVE SubSpaces(_, _)
SubSpaces(t, i) ==
    IF i > Len(t) THEN <<>>
    ELSE LET e == SpacesEnd(t, i)
         IN  IF e > 0 THEN <<" ", " ">> \o SubSpaces(t, e)
             ELSE <<t[i]>> \o SubSpaces(t, i + 1)

\* the three noise rules, lines 50-52
RemovePPD(t) == SubPPDSpaced(SubPPDPair(SubPPDLine(t, 1), 1), 1)

\* the number repair, line 55
RepairNumbers(t) == SubOt(t, 1)

\* the two whitespace rules, lines 58-59
CollapseWhitespace(t) == SubSpaces(SubBlankLines(t, 1), 1)

\* (the whitespace rules run before the noise rules)
clean_collapse_first(t) == RepairNumbers(RemovePPD(CollapseWhitespace(t)))

clean_pdf_artifacts(t) == CollapseWhitespace(RepairNumbers(RemovePPD(t)))

----------------------------------------------------------------------------
(* The texts the functions are run on: every concatenation of at most      *)
(* MaxPieces pieces, and the examples of the specification.                *)

MaxPieces == 3

RECURSIVE Concats(_, _)
Concats(P, n) ==
    IF n = 0 THEN {<<>>}
    ELSE LET S == Concats(P, n - 1) IN S \cup {s \o p : s \in S, p \in P}

DecodePieces ==
    { <<"(", "c", "i", "d", ":", "3">>, Tok(<<"2", "5">>), <<")">>, <<"5">>, <<"6">>, <<"0">>, <<"x">>, Tok(<<"3", "5">>), Tok(<<"2", "9">>),
      <<"(", "c", "i", "d">> }

DecodeInputs ==
    Concats(DecodePieces, MaxPieces)
        \cup { <<"(", "c", "i", "d", ":", "5", "4", ")", "(", "c", "i", "d", ":", "7", "2", ")", "(", "c", "i", "d", ":", "8", "6", ")", "(", "c", "i", "d", ":", "8", "6", ")">>, <<"(", "c", "i", "d", ":", "3", "0", "0", ")">>, <<"(", "c", "i", "d", ":", "3", ")", "(", "c", "i", "d", ":", "3", "6", ")">> }
        \cup {cid_literal[k][1] : k \in 1..Len(cid_literal)}

MirrorPieces ==
    { <<"t", "u", "o", "h", "s", "a", "W">>, <<"g", "n", "i", "n", "e", "e", "r", "c", "s">>, <<"S", "K", "E", "E", "W">>, <<"s", "k", "e", "e", "w">>, <<" ">>, <<".">>, <<"s">>, <<"_">> }

MirrorInputs ==
    Concats(MirrorPieces, MaxPieces) \cup { <<"T", "h", "e", " ", "t", "u", "o", "h", "s", "a", "W", " ", "d", "o", "i", "r", "e", "P", " ", "w", "a", "s", " ", "l", "o", "n", "g", ".">> }

CleanPieces ==
    { PPD, <<" ">>, <<" ", " ">>, <<"\n">>, <<"x">>, <<"6">>, <<" ", "o", "t", " ">>, <<".">>, <<"\t">> }

CleanInputs ==
    Concats(CleanPieces, MaxPieces + 1)
        \cup { <<"t", "e", "r", "m", " ", "P", "P", "D", "t", "e", "r", "m">>, <<"f", "r", "o", "m", " ", "6", " ", "o", "t", " ", "2", " ", "w", "e", "e", "k", "s">>, <<"6", " ", "o", "t", " ", "2", " ", "o", "t", " ", "3">>,
               <<"a", "\n", "\n", "P", "P", "D", "\n", "\n", "b">>, <<"a", "\n", "\n", "\n", "\n", "b">>, <<"a", " ", " ", " ", " ", " ", "b">>, <<"a", " ", " ", "P", "P", "D", " ", " ", "b">>,
               <<"x", ".", "P", "P", "D", "\n", "y">>, <<"x", ".", " ", "P", "P", "D", "\n", "y">> }

PipelinePieces ==
    { <<"(", "c", "i", "d", ":", "3">>, <<")">>, <<"s", "k", "e", "e", "w">>, <<"s">>, <<" ">>, <<"\n">>, <<"6">>, <<" ", "o", "t", " ">> }

PipelineInputs ==
    Concats(PipelinePieces, MaxPieces)
        \cup { <<"6", " ", "o", "t", " ", "2", " ", "o", "t", " ", "3">>, <<"(", "c", "i", "d", "(", "c", "i", "d", ":", "2", "9", ")", "3", ")">>, <<"a", " ", " ", " ", "b", "\n", "\n", "\n", "s", "k", "e", "e", "w", "s", " ", "(", "c", "i", "d", ":", "3", "0", "0", ")">> }

----------------------------------------------------------------------------
(* One function called on one text.                                        *)

InitCall(inputs) ==
    /\ arg \in inputs
    /\ text = arg
    /\ pc = "call"
    /\ calls = <<>>
    /\ protocol_text = <<>>

Call(name, result) ==
    /\ pc = "call"
    /\ text' = result
    /\ pc' = "return"
    /\ calls' = Append(calls, name)
    /\ UNCHANGED <<arg, protocol_text>>

CallDecode == Call("decode_cid_codes", decode_cid_codes(arg))

InitDecode == InitCall(DecodeInputs)

SpecDecode == InitDecode /\ [][CallDecode]_vars

CallFixReversed == Call("fix_reversed_text", fix_reversed_text(arg))

InitMirror == InitCall(MirrorInputs)

SpecMirror == InitMirror /\ [][CallFixReversed]_vars

CallClean == Call("clean_pdf_artifacts", clean_pdf_artifacts(arg))

InitClean == InitCall(CleanInputs)

SpecClean == InitClean /\ [][CallClean]_vars

----------------------------------------------------------------------------
(* The pipeline (decode, then correct, then clean) run on a text, and run   *)
(* once more on its own output.                                            *)

StageOrder == <<"decode_cid_codes", "fix_reversed_text", "clean_pdf_artifacts">>

InitPipeline ==
    /\ arg \in PipelineInputs
    /\ text = arg
    /\ pc = "decode"
    /\ calls = <<>>
    /\ protocol_text = <<>>

PipelineDecode ==
    /\ pc = "decode"
    /\ text' = decode_cid_codes(text)
    /\ pc' = "fix"
    /\ calls' = Append(calls, "decode_cid_codes")
    /\ UNCHANGED <<arg, protocol_text>>

PipelineFix ==
    /\ pc = "fix"
    /\ text' = fix_reversed_text(text)
    /\ pc' = "clean"
    /\ calls' = Append(calls, "fix_reversed_text")
    /\ UNCHANGED <<arg, protocol_text>>

PipelineClean ==
    /\ pc = "clean"
    /\ text' = clean_pdf_artifacts(text)
    /\ pc' = "done"
    /\ calls' = Append(calls, "clean_pdf_artifacts")
    /\ UNCHANGED <<arg, protocol_text>>

\* the output of the first run is the input of the second
PipelineAgain ==
    /\ pc = "done"
    /\ Len(calls) = 3
    /\ arg' = text
    /\ pc' = "decode"
    /\ UNCHANGED <<text, calls, protocol_text>>

NextPipeline == PipelineDecode \/ PipelineFix \/ PipelineClean \/ PipelineAgain

SpecPipeline == InitPipeline /\ [][NextPipeline]_vars

----------------------------------------------------------------------------
(* The Streamlit script: the text area, the PDF upload and the buttons.    *)

AppInputs ==
    { <<>>, <<" ">>, <<"x">>,
      <<"(", "c", "i", "d", ":", "3", "6", ")", "(", "c", "i", "d", ":", "3", ")", "x">>,
      <<"t", "u", "o", "h", "s", "a", "W", " ", "d", "o", "i", "r", "e", "P">>,
      <<"P", "P", "D", "\n", "s", "k", "e", "e", "w", " ", "6", " ", "o", "t", " ", "2">>,
      <<"(", "c", "i", "d", "(", "c", "i", "d", ":", "2", "9", ")", "3", ")", " ", " ", " ", "P", "P", "D", " ", "P", "P", "D">> }

\* sub in text
Contains(t, sub) == Find(t, sub, 1) > 0

\* text.count(sub): the occurrences of sub from index i on, not overlapping
RECURSIVE CountFrom(_, _, _)
CountFrom(t, sub, i) ==
    LET p == Find(t, sub, i)
    IN  IF p = 0 THEN 0 ELSE 1 + CountFrom(t, sub, p + Len(sub))

reversed_words ==
    { <<"t", "u", "o", "h", "s", "a", "W">>, <<"d", "o", "i", "r", "e", "P">>, <<"s", "k", "e", "e", "w">>, <<"g", "n", "i", "n", "e", "e", "r", "c", "S">>, <<"t", "n", "e", "i", "t", "a", "p">>, <<"e", "n", "i", "r", "U">>, <<"e", "c", "n", "O">> }

\* text_issues is not empty
HasTextIssues(t) ==
    /\ t # <<>>
    /\ \/ Contains(t, <<"(", "c", "i", "d", ":">>)
       \/ \E word \in reversed_words : Contains(t, word)
       \/ CountFrom(t, PPD, 1) > 3

\* str.strip() is not empty
NotBlank(t) == \E k \in 1..Len(t) : ~IsSpace(t[k])

Init ==
    /\ protocol_text = <<>>
    /\ arg = <<>>
    /\ text = <<>>
    /\ pc = "idle"
    /\ calls = <<>>

\* the user edits the text area
TextArea ==
    /\ pc = "idle"
    /\ \E s \in AppInputs : protocol_text' = s
    /\ UNCHANGED <<arg, text, pc, calls>>

\* the Clear button
Clear ==
    /\ pc = "idle"
    /\ protocol_text' = <<>>
    /\ UNCHANGED <<arg, text, pc, calls>>

\* extract_text_from_file on a PDF whose pages PyPDF2 reads: alt_text_parts
\* is not empty and its join is what the function is about to return
ExtractPyPDF2 ==
    /\ pc = "idle"
    /\ \E s \in AppInputs :
          /\ NotBlank(s)
          /\ arg' = s
          /\ text' = s
    /\ pc' = "pypdf2_return"
    /\ calls' = <<>>
    /\ UNCHANGED protocol_text

\* return "\n".join(alt_text_parts);
\* st.session_state.protocol_text = extract_text_from_file(...)
PyPDF2Return ==
    /\ pc = "pypdf2_return"
    /\ protocol_text' = text
    /\ pc' = "idle"
    /\ UNCHANGED <<arg, text, calls>>

\* extract_text_from_file on a PDF PyPDF2 reads nothing of: extracted_text is
\* the joined page texts of pdfplumber
ExtractPdfplumber ==
    /\ pc = "idle"
    /\ \E s \in AppInputs :
          /\ arg' = s
          /\ text' = s
    /\ pc' = "extract_decode"
    /\ calls' = <<>>
    /\ UNCHANGED protocol_text

\* decoded_text = decode_cid_codes(extracted_text)
ExtractDecode ==
    /\ pc = "extract_decode"
    /\ text' = decode_cid_codes(arg)
    /\ pc' = "extract_fix"
    /\ calls' = Append(calls, "decode_cid_codes")
    /\ UNCHANGED <<arg, protocol_text>>

\* fixed_text = fix_reversed_text(decoded_text)
ExtractFix ==
    /\ pc = "extract_fix"
    /\ text' = fix_reversed_text(text)
    /\ pc' = "extract_clean"
    /\ calls' = Append(calls, "fix_reversed_text")
    /\ UNCHANGED <<arg, protocol_text>>

\* cleaned_text = clean_pdf_artifacts(fixed_text)
ExtractClean ==
    /\ pc = "extract_clean"
    /\ text' = clean_pdf_artifacts(text)
    /\ pc' = "extract_return"
    /\ calls' = Append(calls, "clean_pdf_artifacts")
    /\ UNCHANGED <<arg, protocol_text>>

\* return cleaned_text; st.session_state.protocol_text = extract_text_from_file(...)
ExtractReturn ==
    /\ pc = "extract_return"
    /\ protocol_text' = text
    /\ pc' = "idle"
    /\ UNCHANGED <<arg, text, calls>>

\* the "Fix Text Issues" button is shown and pressed
FixButton ==
    /\ pc = "idle"
    /\ HasTextIssues(protocol_text)
    /\ arg' = protocol_text
    /\ text' = protocol_text
    /\ pc' = "fix_decode"
    /\ calls' = <<>>
    /\ UNCHANGED protocol_text

\* processed_text = decode_cid_codes(st.session_state.protocol_text)
FixDecode ==
    /\ pc = "fix_decode"
    /\ text' = decode_cid_codes(protocol_text)
    /\ pc' = "fix_reversed"
    /\ calls' = Append(calls, "decode_cid_codes")
    /\ UNCHANGED <<arg, protocol_text>>

\* (the second stage run on the text the handler was given)
FixReversedOnRaw ==
    /\ pc = "fix_reversed"
    /\ text' = fix_reversed_text(protocol_text)
    /\ pc' = "fix_clean"
    /\ calls' = Append(calls, "fix_reversed_text")
    /\ UNCHANGED <<arg, protocol_text>>

\* processed_text = fix_reversed_text(processed_text)
FixReversed ==
    /\ pc = "fix_reversed"
    /\ text' = fix_reversed_text(text)
    /\ pc' = "fix_clean"
    /\ calls' = Append(calls, "fix_reversed_text")
    /\ UNCHANGED <<arg, protocol_text>>

\* processed_text = clean_pdf_artifacts(processed_text);
\* st.session_state.protocol_text = processed_text; st.rerun()
FixClean ==
    /\ pc = "fix_clean"
    /\ text' = clean_pdf_artifacts(text)
    /\ protocol_text' = text'
    /\ pc' = "idle"
    /\ calls' = Append(calls, "clean_pdf_artifacts")
    /\ UNCHANGED arg

Next ==
    \/ TextArea
    \/ Clear
    \/ ExtractPyPDF2
    \/ PyPDF2Return
    \/ ExtractPdfplumber
    \/ ExtractDecode
    \/ ExtractFix
    \/ ExtractClean
    \/ ExtractReturn
    \/ FixButton
    \/ FixDecode
    \/ FixReversed
    \/ FixClean

Spec == Init /\ [][Next]_vars

----------------------------------------------------------------------------
(* Concurrent invocations of the pipeline (Streamlit runs the script of    *)
(* each session in a thread of its own).  Here arg, text, pc and calls are *)
(* functions of the invocation: the locals of one call belong to it.  The  *)
(* tables are dict displays inside the functions, built at each call and   *)
(* only read.                                                              *)

NumInvocations == 2

Invocations == 1..NumInvocations

ConcInputs == { <<"(", "c", "i", "d", ":", "3", "6", ")", "(", "c", "i", "d", ":", "3", ")", "x">>, <<"s", "k", "e", "e", "w", " ", " ", "P", "P", "D", " ", " ", "6", " ", "o", "t", " ", "2">>, <<"(", "c", "i", "d", ":", "8", "7", ")", "u", "o", "h", "s", "a", "W", "\n", "\n", "\n">> }

InitConc ==
    /\ arg \in [Invocations -> ConcInputs]
    /\ text = arg
    /\ pc = [i \in Invocations |-> "decode"]
    /\ calls = [i \in Invocations |-> <<>>]
    /\ protocol_text = <<>>

\* (a stage that reads a buffer another invocation writes, not its own text)
ConcFixShared(i) ==
    /\ pc[i] = "fix"
    /\ text' = [text EXCEPT ![i] =
                   fix_reversed_text(text[CHOOSE j \in Invocations : j # i])]
    /\ pc' = [pc EXCEPT ![i] = "clean"]
    /\ calls' = [calls EXCEPT ![i] = Append(@, "fix_reversed_text")]
    /\ UNCHANGED <<arg, protocol_text>>

ConcDecode(i) ==
    /\ pc[i] = "decode"
    /\ text' = [text EXCEPT ![i] = decode_cid_codes(@)]
    /\ pc' = [pc EXCEPT ![i] = "fix"]
    /\ calls' = [calls EXCEPT ![i] = Append(@, "decode_cid_codes")]
    /\ UNCHANGED <<arg, protocol_text>>

ConcFix(i) ==
    /\ pc[i] = "fix"
    /\ text' = [text EXCEPT ![i] = fix_reversed_text(@)]
    /\ pc' = [pc EXCEPT ![i] = "clean"]
    /\ calls' = [calls EXCEPT ![i] = Append(@, "fix_reversed_text")]
    /\ UNCHANGED <<arg, protocol_text>>

ConcClean(i) ==
    /\ pc[i] = "clean"
    /\ text' = [text EXCEPT ![i] = clean_pdf_artifacts(@)]
    /\ pc' = [pc EXCEPT ![i] = "done"]
    /\ calls' = [calls EXCEPT ![i] = Append(@, "clean_pdf_artifacts")]
    /\ UNCHANGED <<arg, protocol_text>>

NextConc == \E i \in Invocations : ConcDecode(i) \/ ConcFix(i) \/ ConcClean(i)

SpecConc == InitConc /\ [][NextConc]_vars

----------------------------------------------------------------------------
(* Code tokens in a text.                                                  *)

\* r'\(cid:\d+\)' at index i: the index after the token, or 0
TokenEnd(t, i) ==
    IF HasAt(t, i, <<"(", "c", "i", "d", ":">>)
    THEN LET d == RunEnd(t, i + 5, DigitChars)
         IN  IF d >= i + 5 /\ d < Len(t) /\ t[d + 1] = ")" THEN d + 2 ELSE 0
    ELSE 0

CidKeys == {cid_mappings[k][1] : k \in 1..Len(cid_mappings)}

\* the character the table gives for a known token
CidChar(tok) == cid_mappings[CHOOSE k \in 1..Len(cid_mappings) : cid_mappings[k][1] = tok][2]

KnownTokenAt(t, i) == TokenEnd(t, i) > 0 /\ SubSeq(t, i, TokenEnd(t, i) - 1) \in CidKeys

UnknownTokenAt(t, i) == TokenEnd(t, i) > 0 /\ SubSeq(t, i, TokenEnd(t, i) - 1) \notin CidKeys

\* one substitution over the raw text: each known token of t replaced by its
\* character, every other character of t kept
RECURSIVE SimultaneousDecode(_, _)
SimultaneousDecode(t, i) ==
    IF i > Len(t) THEN <<>>
    ELSE IF KnownTokenAt(t, i)
         THEN CidChar(SubSeq(t, i, TokenEnd(t, i) - 1)) \o SimultaneousDecode(t, TokenEnd(t, i))
         ELSE <<t[i]>> \o SimultaneousDecode(t, i + 1)

\* C3: the output of decode_cid_codes is the input with each known code
\* token replaced by its character and every other character left as it was
\* (one simultaneous substitution over the raw input).
C3_DecodeIsOneSubstitution ==
    pc = "return" => text = SimultaneousDecode(arg, 1)

\* the text with the unknown tokens of t kept where they are and the texts
\* between them decoded
RECURSIVE DecodedAroundUnknown(_)
DecodedAroundUnknown(t) ==
    LET hits == {i \in 1..Len(t) : UnknownTokenAt(t, i)}
    IN  IF hits = {} THEN decode_cid_codes(t)
        ELSE LET p == Min(hits)
                 e == TokenEnd(t, p)
             IN  decode_cid_codes(SubSeq(t, 1, p - 1)) \o SubSeq(t, p, e - 1)
                     \o DecodedAroundUnknown(SubSeq(t, e, Len(t)))

\* C4: every occurrence of an unknown token '(cid:N)' of the input is in the
\* output unchanged, at its place between the decoded texts around it, also
\* when a known code is a prefix of N: '(cid:300)' and '(cid:35)' stay as
\* they are although '(cid:3)' is known, and '(cid:36)' becomes 'A'.
C4_UnknownTokensUntouched ==
    pc = "return" =>
        /\ text = DecodedAroundUnknown(arg)
        /\ arg = <<"(", "c", "i", "d", ":", "3", "0", "0", ")">> => text = arg
        /\ arg = <<"(", "c", "i", "d", ":", "3", "5", ")">> => text = arg
        /\ arg = <<"(", "c", "i", "d", ":", "3", "6", ")">> => text = <<"A">>

\* an unknown token that starts like the known '(cid:3)', next to a token
\* that was decoded
C4_Witness ==
    /\ pc = "return"
    /\ arg = Tok(<<"2", "5">>) \o <<"(", "c", "i", "d", ":", "3", "5", ")">> \o <<"x">>
    /\ text = <<"6", "(", "c", "i", "d", ":", "3", "5", ")", "x">>

----------------------------------------------------------------------------
(* Words of a text.                                                        *)

\* the text cut into its maximal runs of word characters and its single
\* non-word characters
RECURSIVE Tokens(_, _)
Tokens(t, i) ==
    IF i > Len(t) THEN <<>>
    ELSE IF IsWord(t[i])
         THEN LET e == RunEnd(t, i, WordChars)
              IN  <<SubSeq(t, i, e)>> \o Tokens(t, e + 1)
         ELSE <<SubSeq(t, i, i)>> \o Tokens(t, i + 1)

MirrorEntries == {reversed_patterns[k] : k \in 1..Len(reversed_patterns)}

\* what the table says a standalone word becomes: the forward spelling of the
\* entry whose key the word is; of an entry whose key it is but for the case;
\* the word itself when it is no key
MirrorOf(w) ==
    IF \E e \in MirrorEntries : e[1] = w
    THEN {e[2] : e \in {x \in MirrorEntries : x[1] = w}}
    ELSE IF \E e \in MirrorEntries : FoldStr(e[1]) = FoldStr(w)
         THEN {e[2] : e \in {x \in MirrorEntries : FoldStr(x[1]) = FoldStr(w)}}
         ELSE {w}

\* C5: fix_reversed_text replaces every standalone occurrence of a
\* MirrorTable key, whatever its case, by that entry's forward spelling, and
\* alters nothing else: no key inside a longer run of word characters, no
\* other character.
C5_MirrorReplacesWholeWords ==
    pc = "return" =>
        LET in == Tokens(arg, 1)
            out == Tokens(text, 1)
        IN  /\ Len(out) = Len(in)
            /\ \A k \in 1..Len(in) : out[k] \in MirrorOf(in[k])
            /\ arg = <<"T", "h", "e", " ", "t", "u", "o", "h", "s", "a", "W", " ", "d", "o", "i", "r", "e", "P", " ", "w", "a", "s", " ", "l", "o", "n", "g", ".">> => text = <<"T", "h", "e", " ", "W", "a", "s", "h", "o", "u", "t", " ", "P", "e", "r", "i", "o", "d", " ", "w", "a", "s", " ", "l", "o", "n", "g", ".">>

\* the same, but for the words that are the key 'gnineercs' up to case
C5_ButScreening ==
    pc = "return" =>
        LET in == Tokens(arg, 1)
            out == Tokens(text, 1)
        IN  /\ Len(out) = Len(in)
            /\ \A k \in 1..Len(in) :
                  \/ out[k] \in MirrorOf(in[k])
                  \/ FoldStr(in[k]) = <<"g", "n", "i", "n", "e", "e", "r", "c", "s">> /\ out[k] = <<"S", "c", "r", "e", "e", "n", "i", "n", "g">>

----------------------------------------------------------------------------
(* Lines and noise tokens of a text.                                       *)

\* str.split('\n')
RECURSIVE Lines(_)
Lines(t) ==
    LET nl == {i \in 1..Len(t) : t[i] = "\n"}
    IN  IF nl = {} THEN <<t>>
        ELSE <<SubSeq(t, 1, Min(nl) - 1)>> \o Lines(SubSeq(t, Min(nl) + 1, Len(t)))

\* the only characters of the line that are not whitespace are one 'PPD'
IsPPDLine(l) ==
    \E i \in 1..Len(l) :
        /\ HasAt(l, i, PPD)
        /\ \A k \in 1..Len(l) : k \in i..(i + 2) \/ IsSpace(l[k])

HasPPDLine(t) == \E k \in 1..Len(Lines(t)) : IsPPDLine(Lines(t)[k])

\* C6: when the input of clean_pdf_artifacts has a line whose only
\* non-whitespace content is 'PPD', its output has no such line.
C6_PPDLineRemoved ==
    (pc = "return" /\ HasPPDLine(arg)) => ~HasPPDLine(text)

\* the runs of word characters of t that hold 'PPD' and more
AttachedPPDWords(t) ==
    LET toks == Tokens(t, 1)
    IN  {toks[k] : k \in {j \in 1..Len(toks) :
                             /\ Len(toks[j]) > 3
                             /\ \E i \in 1..Len(toks[j]) : HasAt(toks[j], i, PPD)}}

\* how many of the tokens of t are w
TokenCount(t, w) ==
    LET toks == Tokens(t, 1)
    IN  Cardinality({k \in 1..Len(toks) : toks[k] = w})

\* C7: a 'PPD' attached to another word character (part of a longer token
\* such as 'PPDterm') is still in the output of clean_pdf_artifacts, its
\* token intact, whatever surrounds the token.
C7_AttachedPPDKept ==
    pc = "return" =>
        \A w \in AttachedPPDWords(arg) : TokenCount(text, w) >= TokenCount(arg, w)

\* three newlines with only whitespace between them
HasBlankLines(t) ==
    \E i, k \in 1..Len(t) :
        /\ i < k
        /\ t[i] = "\n"
        /\ t[k] = "\n"
        /\ \A j \in i..k : IsSpace(t[j])
        /\ \E j \in (i + 1)..(k - 1) : t[j] = "\n"

HasSpaceRun(t) == \E i \in 1..Len(t) : HasAt(t, i, <<" ", " ", " ">>)

HasOtRange(t) == \E i \in 1..Len(t) : OtGroups(t, i) # <<>>

C10_NoSplitRangeLeft ==
    pc = "return" =>
        /\ ~HasOtRange(text)
        /\ arg = <<"f", "r", "o", "m", " ", "6", " ", "o", "t", " ", "2", " ", "w", "e", "e", "k", "s">> => text = <<"f", "r", "o", "m", " ", "6", " ", "t", "o", " ", "2", " ", "w", "e", "e", "k", "s">>

----------------------------------------------------------------------------
(* The pipeline.                                                           *)

\* C1: the pipeline is idempotent: run on its own output, it returns that
\* output again.
C1_PipelineIdempotent ==
    (pc = "done" /\ Len(calls) = 6) => text = arg

\* no known code token, no standalone MirrorTable word (in any case), no
\* 'PPD' and no '<digits> ot <digits>' in t
NoRecognizedToken(t) ==
    /\ \A i \in 1..Len(t) : ~KnownTokenAt(t, i)
    /\ \A k \in 1..Len(Tokens(t, 1)) :
          \A e \in MirrorEntries : FoldStr(e[1]) # FoldStr(Tokens(t, 1)[k])
    /\ \A i \in 1..Len(t) : ~HasAt(t, i, PPD)
    /\ ~HasOtRange(t)

\* the characters of t that are not whitespace
NonSpace(t) == SelectSeq(t, LAMBDA c : ~IsSpace(c))

\* C9: on a text with no recognized token the pipeline returns the text with
\* only its whitespace collapsed: the same characters but for whitespace, the
\* text itself when it has no run of three spaces and no three newlines
\* separated by whitespace, the empty text for the empty text.
C9_NoTokenOnlyWhitespace ==
    (pc = "done" /\ Len(calls) = 3 /\ NoRecognizedToken(arg)) =>
        /\ text = CollapseWhitespace(arg)
        /\ NonSpace(text) = NonSpace(arg)
        /\ ~HasSpaceRun(text) /\ ~HasBlankLines(text)
        /\ (~HasSpaceRun(arg) /\ ~HasBlankLines(arg)) => text = arg
        /\ arg = <<>> => text = <<>>

\* a text of near misses ('skeews', '(cid:300)') with whitespace to collapse
C9_Witness ==
    /\ pc = "done"
    /\ Len(calls) = 3
    /\ NoRecognizedToken(arg)
    /\ arg = <<"a", " ", " ", " ", "b", "\n", "\n", "\n", "s", "k", "e", "e", "w", "s", " ", "(", "c", "i", "d", ":", "3", "0", "0", ")">>
    /\ text = <<"a", " ", " ", "b", "\n", "\n", "s", "k", "e", "e", "w", "s", " ", "(", "c", "i", "d", ":", "3", "0", "0", ")">>

----------------------------------------------------------------------------
(* The two places that run the pipeline.                                   *)

\* the stage function of the given name, applied to t
Stage(name, t) ==
    CASE name = "decode_cid_codes" -> decode_cid_codes(t)
      [] name = "fix_reversed_text" -> fix_reversed_text(t)
      [] name = "clean_pdf_artifacts" -> clean_pdf_artifacts(t)

\* C2: in the pdfplumber branch of extract_text_from_file and in the "Fix
\* Text Issues" handler the three stages are called once each, in the order
\* decode_cid_codes, fix_reversed_text, clean_pdf_artifacts, each on the
\* output of the one before, and the run ends with the output of the third.
C2_StagesOnceInOrder ==
    [][ /\ (calls' # calls /\ calls' # <<>>) =>
              /\ Len(calls) < 3
              /\ calls' = SubSeq(StageOrder, 1, Len(calls) + 1)
              /\ text' = Stage(StageOrder[Len(calls')], text)
        /\ (pc \in {"extract_return", "fix_clean"} /\ pc' = "idle") =>
              /\ calls' = StageOrder
              /\ protocol_text' =
                     clean_pdf_artifacts(fix_reversed_text(decode_cid_codes(arg)))
      ]_vars

\* a press of the button that decoded, corrected and cleaned something
C2_Witness ==
    /\ pc = "idle"
    /\ calls = StageOrder
    /\ arg = <<"(", "c", "i", "d", "(", "c", "i", "d", ":", "2", "9", ")", "3", ")", " ", " ", " ", "P", "P", "D", " ", "P", "P", "D">>
    /\ protocol_text = <<"(", "c", "i", "d", ":", "3", ")", " ", " ">>

----------------------------------------------------------------------------
(* Concurrent invocations.                                                 *)

\* what the invocation returns when it runs alone
Alone(t) == clean_pdf_artifacts(fix_reversed_text(decode_cid_codes(t)))

\* C11: the pipeline keeps no state between calls: however the stages of
\* concurrent invocations interleave, each invocation has at each stage, and
\* returns, what it has and returns when it runs alone on its input.
C11_InvocationsIndependent ==
    \A i \in Invocations :
        /\ pc[i] = "decode" => text[i] = arg[i]
        /\ pc[i] = "fix" => text[i] = decode_cid_codes(arg[i])
        /\ pc[i] = "clean" => text[i] = fix_reversed_text(decode_cid_codes(arg[i]))
        /\ pc[i] = "done" => text[i] = Alone(arg[i])

\* one invocation has returned a repaired text while another, on another
\* input, is between its stages
C11_Witness ==
    /\ pc[1] = "done"
    /\ pc[2] = "fix"
    /\ arg[1] = <<"(", "c", "i", "d", ":", "8", "7", ")", "u", "o", "h", "s", "a", "W", "\n", "\n", "\n">>
    /\ text[1] = <<"W", "a", "s", "h", "o", "u", "t", "\n", "\n">>
    /\ arg[2] = <<"(", "c", "i", "d", ":", "3", "6", ")", "(", "c", "i", "d", ":", "3", ")", "x">>
    /\ text[2] = <<"A", " ", "x">>

----------------------------------------------------------------------------
(* The mirror table in another order.                                      *)

\* the loop of fix_reversed_text over the entries in the given order
RECURSIVE ReversedLoopIn(_, _, _)
ReversedLoopIn(t, order, k) ==
    IF k > Len(order) \/ Len(t) = 0 THEN t
    ELSE ReversedLoopIn(SubReversed(t, 1, reversed_patterns[order[k]][1],
                                    reversed_patterns[order[k]][2]),
                        order, k + 1)

DefinedOrder == [k \in 1..Len(reversed_patterns) |-> k]

\* the defined order with the entries i and j exchanged
Exchanged(i, j) == [DefinedOrder EXCEPT ![i] = j, ![j] = i]

\* permutations of the entries: the defined order backwards, and every
\* exchange of two of the first eight entries (lines 69-76)
EntryOrders ==
    {[k \in 1..Len(reversed_patterns) |-> Len(reversed_patterns) + 1 - k]}
        \cup {Exchanged(i, j) : i, j \in 1..8}

\* C12: mirror correction does not depend on the order of the table's
\* entries: the replacements applied in a permuted order give the output of
\* fix_reversed_text.
C12_MirrorOrderIndependent ==
    pc = "return" => \A order \in EntryOrders : ReversedLoopIn(arg, order, 1) = text

----------------------------------------------------------------------------
(* The glyph table as written.                                             *)

\* C13: every code token the table lists is listed with one character, the
\* one decode_cid_codes produces for it: decoding a listed token gives the
\* character of every entry that lists it.
C13_OneCharPerToken ==
    pc = "return" =>
        \A k \in 1..Len(cid_literal) :
            arg = cid_literal[k][1] => text = cid_literal[k][2]

----------------------------------------------------------------------------
(* What the cleaner leaves of the text around the noise.                   *)

\* the index after the run of non-whitespace characters that starts at i
RECURSIVE FieldEnd(_, _)
FieldEnd(t, i) ==
    IF i > Len(t) \/ IsSpace(t[i]) THEN i ELSE FieldEnd(t, i + 1)

\* the whitespace-separated tokens of t, in order
RECURSIVE Fields(_, _)
Fields(t, i) ==
    IF i > Len(t) THEN <<>>
    ELSE IF IsSpace(t[i]) THEN Fields(t, i + 1)
         ELSE LET e == FieldEnd(t, i)
              IN  <<SubSeq(t, i, e - 1)>> \o Fields(t, e)

\* the tokens of t that are not the noise token, a split range's 'ot' read
\* as the 'to' the number rule makes of it
NonNoiseFields(t) ==
    LET f == SelectSeq(Fields(t, 1), LAMBDA w : w # PPD)
    IN  [k \in 1..Len(f) |-> IF f[k] = <<"o", "t">> THEN <<"t", "o">> ELSE f[k]]

\* C14: clean_pdf_artifacts deletes only isolated 'PPD' tokens and neither
\* deletes nor joins the text around them: the whitespace-separated tokens
\* of its output other than 'PPD' are those of its input, in the same order
\* (a 'PPD' attached to preceding punctuation at the end of a line stays).
C14_RemovalConservative ==
    pc = "return" => NonNoiseFields(text) = NonNoiseFields(arg)

----------------------------------------------------------------------------
(* What extract_text_from_file returns for a PDF.                          *)

\* C15: a non-empty text that extract_text_from_file is about to return for
\* a PDF is the extracted text decoded, corrected and cleaned, whether
\* PyPDF2 or pdfplumber extracted it.
C15_ReturnedTextNormalized ==
    (pc \in {"pypdf2_return", "extract_return"} /\ text # <<>>) =>
        text = clean_pdf_artifacts(fix_reversed_text(decode_cid_codes(arg)))
============================================================================
